---- MODULE Spec2Model ----
(***************************************************************************)
(* Model of the `task` command-line tool (src/main.rs).                    *)
(*                                                                         *)
(* Text is modelled character by character: a string is a sequence of      *)
(* one-character strings.  The four emoji glyphs are single characters of  *)
(* the text, written here as the ASCII names "DUE", "CRE", "OK" and "X".   *)
(* Positions are 1-based (Rust index i is position i + 1).                 *)
(* A calendar date is its day number, the count of days since 1970-01-01.  *)
(***************************************************************************)
EXTENDS Integers, Sequences, FiniteSets, TLC

VARIABLES
    pool,    \* the add arguments and the days this behaviour draws from
    lines,   \* the backing store, as read_lines returns it
    today,   \* Local::now().date_naive(), a day number
    last,    \* what the running invocation was given, did and printed
    wpath,   \* write_lines, step by step: the store's path
    wfs,     \* ... the files of the store's directory: path -> set of its bytes
    wold,    \* ... the store's line list before write_lines was called
    wnew,    \* ... the line list handed to write_lines
    wpc,     \* ... the position inside write_lines
    wk,      \* ... how many lines the loop has written
    woff     \* ... how many bytes of the next line have been written

vars == <<pool, lines, today, last, wpath, wfs, wold, wnew, wpc, wk, woff>>
storeVars == <<pool, lines, today, last>>
writeVars == <<wpath, wfs, wold, wnew, wpc, wk, woff>>

(***************************************************************************)
(* Bounds of the model.                                                    *)
(***************************************************************************)
MaxLines == 2      \* the store never grows beyond this many lines
MaxBatch == 2      \* the longest list of numbers given to done
MaxStrike == 1     \* how many times one line is cancelled over again

(***************************************************************************)
(* Characters.                                                             *)
(***************************************************************************)
DUE == "DUE"     \* the due-date glyph
CRE == "CRE"     \* the creation-date glyph
OKG == "OK"      \* the completion-date glyph
XG == "X"        \* the cancellation-date glyph
NL == "\n"

Digits == <<"0", "1", "2", "3", "4", "5", "6", "7", "8", "9">>

IsDigit(c) == \E i \in 1..10 : Digits[i] = c

DigitVal(c) == (CHOOSE i \in 1..10 : Digits[i] = c) - 1

\* char::is_whitespace, on the characters of the model
IsSpace(c) == c \in {" ", NL}

\* the length of a character in UTF-8
Utf8Len(c) == IF c \in {DUE, CRE} THEN 4 ELSE IF c \in {OKG, XG} THEN 3 ELSE 1

RECURSIVE ByteLen(_)
ByteLen(s) == IF s = <<>> THEN 0 ELSE Utf8Len(Head(s)) + ByteLen(Tail(s))

\* the bytes of a character in UTF-8; a character of one byte is that byte
Utf8(c) ==
    IF c = DUE THEN <<"F0", "9F", "93", "85">>
    ELSE IF c = CRE THEN <<"F0", "9F", "93", "8B">>
    ELSE IF c = OKG THEN <<"E2", "9C", "85">>
    ELSE IF c = XG THEN <<"E2", "9D", "8C">>
    ELSE <<c>>

\* str::as_bytes
RECURSIVE Bytes(_)
Bytes(s) == IF s = <<>> THEN <<>> ELSE Utf8(Head(s)) \o Bytes(Tail(s))

(***************************************************************************)
(* str operations of the standard library.                                 *)
(***************************************************************************)
MatchAt(s, p, i) ==
    /\ i >= 1
    /\ i + Len(p) - 1 <= Len(s)
    /\ \A k \in 1..Len(p) : s[i + k - 1] = p[k]

\* the least element of a non-empty set of numbers
Least(S) == CHOOSE i \in S : \A j \in S : i <= j

\* str::find: the position of the first match, 0 when there is none
Find(s, p) ==
    LET M == {i \in 1..(Len(s) - Len(p) + 1) : MatchAt(s, p, i)}
    IN IF M = {} THEN 0 ELSE Least(M)

\* str::contains
Contains(s, p) == \E i \in 1..(Len(s) - Len(p) + 1) : MatchAt(s, p, i)

Drop(s, n) == SubSeq(s, n + 1, Len(s))

\* str::replace: every non-overlapping match, left to right
RECURSIVE Replace(_, _, _)
Replace(s, from, to) ==
    LET k == Find(s, from)
    IN IF k = 0 THEN s
       ELSE SubSeq(s, 1, k - 1) \o to \o Replace(Drop(s, k + Len(from) - 1), from, to)

\* str::splitn(2, p).nth(1): what follows the first match of p, if p matches
SplitAfter(s, p) ==
    LET k == Find(s, p)
    IN IF k = 0 THEN {} ELSE {Drop(s, k + Len(p) - 1)}

\* str::trim
Trim(s) ==
    LET K == {i \in 1..Len(s) : ~IsSpace(s[i])}
    IN IF K = {} THEN <<>>
       ELSE SubSeq(s, Least(K), CHOOSE i \in K : \A j \in K : j <= i)

\* str::strip_prefix(p).unwrap_or(s)
StripPrefix(s, p) == IF MatchAt(s, p, 1) THEN Drop(s, Len(p)) ELSE s

\* [String]::join(" ")
RECURSIVE Join(_)
Join(ws) ==
    IF ws = <<>> THEN <<>>
    ELSE IF Len(ws) = 1 THEN ws[1]
    ELSE ws[1] \o <<" ">> \o Join(Tail(ws))

(***************************************************************************)
(* Calendar dates (chrono::NaiveDate), as day numbers.                     *)
(***************************************************************************)
IsLeap(y) == (y % 4 = 0 /\ y % 100 # 0) \/ y % 400 = 0

DaysInMonth(y, m) ==
    IF m = 2 THEN (IF IsLeap(y) THEN 29 ELSE 28)
    ELSE IF m \in {4, 6, 9, 11} THEN 30 ELSE 31

\* NaiveDate::from_ymd_opt(y, m, d) for a valid date of a year >= 0
DaysFromCivil(y, m, d) ==
    LET yy == IF m <= 2 THEN y - 1 ELSE y
        era == yy \div 400
        yoe == yy - era * 400
        mp == IF m > 2 THEN m - 3 ELSE m + 9
        doy == (153 * mp + 2) \div 5 + d - 1
        doe == yoe * 365 + yoe \div 4 - yoe \div 100 + doy
    IN era * 146097 + doe - 719468

\* the year, month and day of a day number
CivilFromDays(n) ==
    LET z == n + 719468
        era == z \div 146097
        doe == z - era * 146097
        yoe == (doe - doe \div 1460 + doe \div 36524 - doe \div 146096) \div 365
        doy == doe - (365 * yoe + yoe \div 4 - yoe \div 100)
        mp == (5 * doy + 2) \div 153
        d == doy - (153 * mp + 2) \div 5 + 1
        m == IF mp < 10 THEN mp + 3 ELSE mp - 9
        y == yoe + era * 400 + (IF m <= 2 THEN 1 ELSE 0)
    IN [y |-> y, m |-> m, d |-> d]

Dig(n) == Digits[(n % 10) + 1]

\* NaiveDate::format("%Y-%m-%d").to_string(), for the years 0..9999
FormatDate(n) ==
    LET c == CivilFromDays(n)
    IN <<Dig(c.y \div 1000), Dig(c.y \div 100), Dig(c.y \div 10), Dig(c.y), "-",
         Dig(c.m \div 10), Dig(c.m), "-", Dig(c.d \div 10), Dig(c.d)>>

\* the regular expression \d{4}-\d{2}-\d{2} matches s at position i
DateShapeAt(s, i) ==
    /\ i >= 1
    /\ i + 9 <= Len(s)
    /\ \A k \in {0, 1, 2, 3, 5, 6, 8, 9} : IsDigit(s[i + k])
    /\ s[i + 4] = "-"
    /\ s[i + 7] = "-"

\* NaiveDate::parse_from_str(t, "%Y-%m-%d").ok(), for a text t of the shape
\* \d{4}-\d{2}-\d{2}: the set of the date parsed, empty when it is no date
ParseDate(t) ==
    LET y == 1000 * DigitVal(t[1]) + 100 * DigitVal(t[2])
                + 10 * DigitVal(t[3]) + DigitVal(t[4])
        m == 10 * DigitVal(t[6]) + DigitVal(t[7])
        d == 10 * DigitVal(t[9]) + DigitVal(t[10])
    IN IF m >= 1 /\ m <= 12 /\ d >= 1 /\ d <= DaysInMonth(y, m)
       THEN {DaysFromCivil(y, m, d)}
       ELSE {}

(***************************************************************************)
(* The regular expressions.                                                *)
(***************************************************************************)
\* the number of whitespace characters of s from position i on
SpaceRun(s, i) == Least({k \in 0..Len(s) : i + k > Len(s) \/ ~IsSpace(s[i + k])})

\* the number of non-whitespace characters of s from position i on
WordRun(s, i) == Least({k \in 0..Len(s) : i + k > Len(s) \/ IsSpace(s[i + k])})

\* glyph \s+ (\d{4}-\d{2}-\d{2}) matches s at position i
GlyphDateAt(s, glyph, i) ==
    /\ i >= 1
    /\ i <= Len(s)
    /\ s[i] = glyph
    /\ SpaceRun(s, i + 1) >= 1
    /\ DateShapeAt(s, i + 1 + SpaceRun(s, i + 1))

\* Regex::captures(line).and_then(|cap| cap.get(1)) for DUE_DATE_RE (glyph DUE)
\* and COMPLETION_DATE_RE (glyph OKG): group 1 of the leftmost match
CaptureDate(s, glyph) ==
    LET M == {i \in 1..Len(s) : GlyphDateAt(s, glyph, i)}
        b == Least(M) + 1 + SpaceRun(s, Least(M) + 1)
    IN IF M = {} THEN {} ELSE {SubSeq(s, b, b + 9)}

extract_date(s, glyph) == UNION {ParseDate(t) : t \in CaptureDate(s, glyph)}

\* DATE_PART_RE, (DUE [^CRE]* CRE [^\s]*), matches s at position i
DatePartAt(s, i) ==
    /\ i >= 1
    /\ i <= Len(s)
    /\ s[i] = DUE
    /\ \E j \in (i + 1)..Len(s) : s[j] = CRE

\* DATE_PART_RE.captures(line).and_then(|cap| cap.get(1)).map_or("", ...)
DatePart(s) ==
    LET M == {i \in 1..Len(s) : DatePartAt(s, i)}
        c == Least({j \in (Least(M) + 1)..Len(s) : s[j] = CRE})
    IN IF M = {} THEN <<>> ELSE SubSeq(s, Least(M), c + WordRun(s, c + 1))

(***************************************************************************)
(* The backing store: read_lines and write_lines.                          *)
(***************************************************************************)
\* the bytes write_lines gives the file: every line followed by a newline
RECURSIVE FileText(_)
FileText(ls) ==
    IF ls = <<>> THEN <<>> ELSE Head(ls) \o <<NL>> \o FileText(Tail(ls))

\* BufRead::lines over a file's text
RECURSIVE SplitLines(_)
SplitLines(t) ==
    LET k == Find(t, <<NL>>)
    IN IF t = <<>> THEN <<>>
       ELSE IF k = 0 THEN <<t>>
       ELSE <<SubSeq(t, 1, k - 1)>> \o SplitLines(Drop(t, k))

\* what read_lines returns once write_lines(path, ls) has completed
read_lines(ls) == SplitLines(FileText(ls))

(***************************************************************************)
(* The line format.                                                        *)
(***************************************************************************)
PENDING == <<"-", " ", "[", " ", "]">>
DONE == <<"-", " ", "[", "x", "]">>
CANCELLED == <<"-", " ", "[", "-", "]", " ", XG>>
STRIKE == <<"~", "~">>

\* format!("- [ ] DUE {} CRE {} {}", due_date, today, task_text)
task_line(due, created, body) ==
    PENDING \o <<" ", DUE, " ">> \o due \o <<" ", CRE, " ">> \o created \o <<" ">> \o body

\* format!("- [x] OK {}", completion_date)
done_token(date) == DONE \o <<" ", OKG, " ">> \o date

\* mark_done writing the completion date at the end of the line
mark_done_append(line, date) ==
    Replace(line, PENDING, DONE) \o <<" ", OKG, " ">> \o date

\* lines[line_idx].replace("- [ ]", &format!("- [x] OK {}", completion_date))
mark_done(line, date) == Replace(line, PENDING, done_token(date))

\* line.splitn(2, date_part).nth(1).unwrap_or("").trim()
cancel_text(line) ==
    LET rest == SplitAfter(line, DatePart(line))
    IN IF rest = {} THEN <<>> ELSE Trim(CHOOSE r \in rest : TRUE)

\* format!("- [-] X {} {} ~~{}~~", cancellation_date, date_part, task_text)
mark_cancelled(line, date) ==
    CANCELLED \o <<" ">> \o date \o <<" ">> \o DatePart(line) \o <<" ">>
        \o STRIKE \o cancel_text(line) \o STRIKE

(***************************************************************************)
(* Filtering and numbering.                                                *)
(***************************************************************************)
Reverse(s) == [i \in 1..Len(s) |-> s[Len(s) + 1 - i]]

\* lines.iter().enumerate().filter(|(_, l)| l.contains(token)).map(|(i, _)| i)
filtered(ls, token) ==
    SelectSeq([i \in 1..Len(ls) |-> i], LAMBDA i : Contains(ls[i], token))

\* done_pending without pending.reverse()
done_pending_unreversed(ls) == filtered(ls, PENDING)

\* Commands::Done: the vector `pending`, after pending.reverse()
done_pending(ls) == Reverse(filtered(ls, PENDING))

\* cancel_pending without pending.reverse()
cancel_pending_unreversed(ls) == filtered(ls, PENDING)

\* Commands::Cancel: the vector `pending`, after pending.reverse()
cancel_pending(ls) == Reverse(filtered(ls, PENDING))

\* task_num == 0 || task_num > pending.len()
out_of_range(n, pending) == n = 0 \/ n > Len(pending)

\* the line a task number stands for: pending[task_num - 1], 0 when out of range
target(n, pending) == IF out_of_range(n, pending) THEN 0 ELSE pending[n]

\* line.strip_prefix("- ").unwrap_or(line)
display_line(line) == StripPrefix(line, <<"-", " ">>)

\* pending_listing without pending.reverse()
pending_listing_unreversed(ls) ==
    LET p == filtered(ls, PENDING)
    IN [k \in 1..Len(p) |-> [num |-> k, idx |-> p[k], text |-> display_line(ls[p[k]])]]

\* Commands::Pending: the pairs (i, line) that contain the pending token,
\* reversed, then printed with the numbers 1, 2, ...; idx is the line printed
pending_listing(ls) ==
    LET p == Reverse(SelectSeq([i \in 1..Len(ls) |-> i],
                               LAMBDA i : Contains(ls[i], PENDING)))
    IN [k \in 1..Len(p) |-> [num |-> k, idx |-> p[k], text |-> display_line(ls[p[k]])]]

\* println!("{} - {}", n, display_line) for the line at index i
entry(ls, n, i) == [num |-> n, idx |-> i, text |-> display_line(ls[i])]

\* Commands::Today: the pending lines whose captured due date text is today's,
\* each printed with i + 1, i the index of the line in the file
today_listing(ls, now) ==
    LET p == SelectSeq(filtered(ls, PENDING),
                       LAMBDA i : CaptureDate(ls[i], DUE) = {FormatDate(now)})
    IN [k \in 1..Len(p) |-> entry(ls, p[k], p[k])]

\* in_week with the upper comparison strict
in_week_exclusive(due, now) == due >= now /\ due < now + 7

\* due_date >= today && due_date <= week_later
in_week(due, now) == due >= now /\ due <= now + 7

\* Commands::Week: the pending lines whose due date parses and is in the week,
\* each printed with i + 1, i the index of the line in the file
week_listing(ls, now) ==
    LET p == SelectSeq(filtered(ls, PENDING),
                       LAMBDA i : \E d \in extract_date(ls[i], DUE) : in_week(d, now))
    IN [k \in 1..Len(p) |-> entry(ls, p[k], p[k])]

\* completion_date >= weeks_ago && completion_date <= today
in_last_weeks(done, now, weeks) == done >= now - 7 * weeks /\ done <= now

\* Commands::LastWeek: the done lines completed in the last weeks,
\* each printed with i + 1, i the index of the line in the file
lastweek_listing(ls, now, weeks) ==
    LET p == SelectSeq(filtered(ls, DONE),
                       LAMBDA i : \E d \in extract_date(ls[i], OKG) :
                                     in_last_weeks(d, now, weeks))
    IN [k \in 1..Len(p) |-> entry(ls, p[k], p[k])]

\* Commands::Done without task numbers: the done lines, numbered 1, 2, ...
done_listing(ls) ==
    LET p == filtered(ls, DONE)
    IN [k \in 1..Len(p) |-> entry(ls, k, p[k])]

\* Commands::Cancel without a task number: the cancelled lines, numbered 1, 2, ...
cancel_listing(ls) ==
    LET p == filtered(ls, CANCELLED)
    IN [k \in 1..Len(p) |-> entry(ls, k, p[k])]

\* Commands::All: every line, numbered 1, 2, ...
all_listing(ls) == [i \in 1..Len(ls) |-> entry(ls, i, i)]

(***************************************************************************)
(* add                                                                     *)
(***************************************************************************)
\* d.len() == 10 && d.chars().nth(4) == Some('-')
is_date_arg(d) == ByteLen(d) = 10 /\ Len(d) >= 5 /\ d[5] = "-"

\* the pair (due_date, task_text); `date` is the set of the optional argument
add_due(date, now) ==
    IF \E d \in date : is_date_arg(d) THEN CHOOSE d \in date : TRUE ELSE FormatDate(now)

add_text(date, text) ==
    IF date = {} \/ \E d \in date : is_date_arg(d)
    THEN Join(text)
    ELSE Join(<<CHOOSE d \in date : TRUE>> \o text)

add_line(date, text, now) ==
    task_line(add_due(date, now), FormatDate(now), add_text(date, text))

(***************************************************************************)
(* done                                                                    *)
(***************************************************************************)
\* one turn of the loop over task_nums
done_one(ls, pending, n, date) ==
    IF out_of_range(n, pending) THEN ls
    ELSE [ls EXCEPT ![pending[n]] = mark_done(@, date)]

\* done_loop leaving the loop at the first number out of range
RECURSIVE done_loop_abort(_, _, _, _)
done_loop_abort(ls, pending, nums, date) ==
    IF nums = <<>> \/ out_of_range(Head(nums), pending) THEN ls
    ELSE done_loop_abort(done_one(ls, pending, Head(nums), date), pending,
                         Tail(nums), date)

\* done_loop computing the pending lines anew before every number
RECURSIVE done_loop_fresh(_, _, _, _)
done_loop_fresh(ls, pending, nums, date) ==
    IF nums = <<>> THEN ls
    ELSE done_loop_fresh(done_one(ls, done_pending(ls), Head(nums), date),
                         pending, Tail(nums), date)

\* the whole loop: `pending` is computed once, before the loop
RECURSIVE done_loop(_, _, _, _)
done_loop(ls, pending, nums, date) ==
    IF nums = <<>> THEN ls
    ELSE done_loop(done_one(ls, pending, Head(nums), date), pending, Tail(nums), date)

(***************************************************************************)
(* cancel                                                                  *)
(***************************************************************************)
\* cancel_one taking the task number for the line's position
cancel_one_by_number(ls, pending, n, date) ==
    [ls EXCEPT ![n] = mark_cancelled(@, date)]

cancel_one(ls, pending, n, date) ==
    [ls EXCEPT ![pending[n]] = mark_cancelled(@, date)]

(***************************************************************************)
(* The invocations the model draws from.                                   *)
(***************************************************************************)
StartDay == CHOOSE n \in ParseDate(<<"2", "0", "2", "5", "-", "0", "6", "-", "0", "1">>) : TRUE

WordA == <<"A">>
WordB == <<"B">>
WordToken == <<"c", " ", "-", " ", "[", " ", "]">>
WordTwoLines == <<"a", NL, "b">>
WordDate == <<"2", "0", "2", "5", "-", "0", "6", "-", "1", "0">>
WordNoDate == <<"2", "0", "2", "5", "-", "0", "2", "-", "3", "0">>
WordDue8 == <<"2", "0", "2", "5", "-", "0", "6", "-", "0", "9">>
WordPast == <<"2", "0", "2", "5", "-", "0", "5", "-", "3", "1">>

\* the arguments of add: the optional first argument and the remaining words
ArgNone == [date |-> {}, text |-> <<>>]
ArgA == [date |-> {WordA}, text |-> <<>>]
ArgB == [date |-> {WordB}, text |-> <<>>]
ArgToken == [date |-> {WordToken}, text |-> <<>>]
ArgTwoLines == [date |-> {WordTwoLines}, text |-> <<>>]
ArgDateOnly == [date |-> {WordDate}, text |-> <<>>]
ArgDate == [date |-> {WordDate}, text |-> <<WordA, WordB>>]
ArgNoDate == [date |-> {WordNoDate}, text |-> <<WordB>>]
ArgDue8 == [date |-> {WordDue8}, text |-> <<WordA>>]
ArgPast == [date |-> {WordPast}, text |-> <<WordB>>]

\* the lines that add A and add B write on the first day
LineA == add_line({WordA}, <<>>, StartDay)
LineB == add_line({WordB}, <<>>, StartDay)

\* one behaviour draws the arguments of its add invocations from `args` and
\* runs its invocations on the days `days`
Pools ==
    { [args |-> {ArgNone, ArgA, ArgB}, days |-> {StartDay}],
      [args |-> {ArgToken}, days |-> {StartDay}],
      [args |-> {ArgPast, ArgTwoLines}, days |-> {StartDay}],
      [args |-> {ArgDateOnly, ArgDate, ArgNoDate}, days |-> {StartDay}],
      [args |-> {ArgDue8}, days |-> {StartDay, StartDay + 1}] }

\* the task numbers an invocation may name: 0, every pending line, one beyond
Nums == 0..(Len(filtered(lines, PENDING)) + 1)

Batches == UNION {[1..k -> Nums] : k \in 1..MaxBatch}

\* the values of --weeks an invocation of lastweek may give
Weeks == {0, 1}

\* how many times a line has been struck through
RECURSIVE StrikeDepth(_)
StrikeDepth(line) ==
    IF MatchAt(line, STRIKE, Len(line) - 1)
    THEN 1 + StrikeDepth(SubSeq(line, 1, Len(line) - 2))
    ELSE 0

Idle ==
    [cmd |-> "none", date |-> {}, text |-> <<>>, nums |-> <<>>, now |-> StartDay,
     before |-> <<>>, targets |-> <<>>, writes |-> 0, errs |-> 0, out |-> <<>>]

(***************************************************************************)
(* The state machine of the store: one action per invocation.              *)
(***************************************************************************)
Init ==
    /\ pool \in Pools
    /\ lines = <<>>
    /\ today = StartDay
    /\ last = Idle
    /\ wpath = "none"
    /\ wfs = <<>>
    /\ wold = <<>>
    /\ wnew = <<>>
    /\ wpc = "idle"
    /\ wk = 0
    /\ woff = 0

\* the calendar day changes between two invocations
AdvanceDay ==
    /\ last = Idle
    /\ today + 1 \in pool.days
    /\ today' = today + 1
    /\ UNCHANGED <<pool, lines, last>>

\* Add without the check of the task text
Add_unchecked(a) ==
    LET new == read_lines(Append(lines, add_line(a.date, a.text, today)))
    IN /\ last = Idle
       /\ Len(new) <= MaxLines
       /\ lines' = new
       /\ last' = [Idle EXCEPT !.cmd = "add", !.date = a.date, !.text = a.text,
                               !.now = today, !.before = lines, !.writes = 1]
       /\ UNCHANGED <<pool, today>>

\* Commands::Add
Add(a) ==
    LET body == add_text(a.date, a.text)
        new == read_lines(Append(lines, add_line(a.date, a.text, today)))
        rec == [Idle EXCEPT !.cmd = "add", !.date = a.date, !.text = a.text,
                            !.now = today, !.before = lines]
    IN /\ last = Idle
       /\ IF body = <<>>
          THEN /\ last' = [rec EXCEPT !.errs = 1]
               /\ UNCHANGED <<pool, lines, today>>
          ELSE /\ Len(new) <= MaxLines
               /\ lines' = new
               /\ last' = [rec EXCEPT !.writes = 1]
               /\ UNCHANGED <<pool, today>>

\* Commands::Pending
Pending ==
    /\ last = Idle
    /\ last' = [Idle EXCEPT !.cmd = "pending", !.now = today, !.before = lines,
                            !.out = pending_listing(lines)]
    /\ UNCHANGED <<pool, lines, today>>

\* a listing invocation: it prints `out` and leaves the store alone
Listing(cmd, out) ==
    /\ last = Idle
    /\ last' = [Idle EXCEPT !.cmd = cmd, !.now = today, !.before = lines, !.out = out]
    /\ UNCHANGED <<pool, lines, today>>

\* Commands::Today
Today == Listing("today", today_listing(lines, today))

\* Commands::Week
Week == Listing("week", week_listing(lines, today))

\* Commands::LastWeek
LastWeek(weeks) == Listing("lastweek", lastweek_listing(lines, today, weeks))

\* Commands::Done without task numbers
DoneList == Listing("donelist", done_listing(lines))

\* Commands::Cancel without a task number
CancelList == Listing("cancellist", cancel_listing(lines))

\* Commands::All
All == Listing("all", all_listing(lines))

\* Commands::Done with task numbers
Done(nums) ==
    LET pending == done_pending(lines)
        new == done_loop(lines, pending, nums, FormatDate(today))
    IN /\ last = Idle
       /\ lines' = read_lines(new)
       /\ last' = [Idle EXCEPT
                     !.cmd = "done", !.nums = nums, !.now = today, !.before = lines,
                     !.targets = [i \in 1..Len(nums) |-> target(nums[i], pending)],
                     !.errs = Cardinality({i \in 1..Len(nums) :
                                              out_of_range(nums[i], pending)}),
                     !.writes = 1]
       /\ UNCHANGED <<pool, today>>

\* Commands::Cancel with a task number
Cancel(n) ==
    LET pending == cancel_pending(lines)
        rec == [Idle EXCEPT !.cmd = "cancel", !.nums = <<n>>, !.now = today,
                            !.before = lines, !.targets = <<target(n, pending)>>]
    IN /\ last = Idle
       /\ IF out_of_range(n, pending)
          THEN /\ last' = [rec EXCEPT !.errs = 1]
               /\ UNCHANGED <<pool, lines, today>>
          ELSE /\ StrikeDepth(lines[pending[n]]) < MaxStrike
               /\ lines' = read_lines(cancel_one(lines, pending, n, FormatDate(today)))
               /\ last' = [rec EXCEPT !.writes = 1]
               /\ UNCHANGED <<pool, today>>

\* the process exits; the next invocation is a new process
Exit ==
    /\ last # Idle
    /\ last' = Idle
    /\ UNCHANGED <<pool, lines, today>>

Next ==
    \/ AdvanceDay /\ UNCHANGED writeVars
    \/ \E a \in pool.args : Add(a) /\ UNCHANGED writeVars
    \/ Pending /\ UNCHANGED writeVars
    \/ Today /\ UNCHANGED writeVars
    \/ Week /\ UNCHANGED writeVars
    \/ \E w \in Weeks : LastWeek(w) /\ UNCHANGED writeVars
    \/ DoneList /\ UNCHANGED writeVars
    \/ CancelList /\ UNCHANGED writeVars
    \/ All /\ UNCHANGED writeVars
    \/ \E nums \in Batches : Done(nums) /\ UNCHANGED writeVars
    \/ \E n \in Nums : Cancel(n) /\ UNCHANGED writeVars
    \/ Exit /\ UNCHANGED writeVars

Spec == Init /\ [][Next]_vars

(***************************************************************************)
(* Properties of the invocations.  `last` holds the running invocation:    *)
(* what it was given, the store it read (before), the line each task       *)
(* number was resolved to (targets, 0 for a number reported out of range), *)
(* and how often it called write_lines; `lines` is the store it left.      *)
(***************************************************************************)
Mutating == last.cmd \in {"done", "cancel"}

\* the pending lines of the store the invocation read, in file order
PendingBefore == filtered(last.before, PENDING)

InRange(n) == n >= 1 /\ n <= Len(PendingBefore)

\* the lines the invocation resolved its in-range task numbers to
Targets == {last.targets[i] : i \in 1..Len(last.targets)} \ {0}

\* the line starts with the token of a completed or of a cancelled task
Marked(line) == MatchAt(line, DONE, 1) \/ MatchAt(line, CANCELLED, 1)

\* C1: with M pending lines (lines containing the pending token) in the store
\* that done or cancel read, a task number N is reported out of range exactly
\* when N < 1 or N > M; otherwise the line resolved and rewritten is the
\* (M - N + 1)-th pending line in file order.
C1_Resolve ==
    Mutating =>
        \A i \in 1..Len(last.nums) :
            LET N == last.nums[i]
                M == Len(PendingBefore)
            IN /\ (last.targets[i] = 0) <=> (N < 1 \/ N > M)
               /\ (N >= 1 /\ N <= M) =>
                    /\ last.targets[i] = PendingBefore[M - N + 1]
                    /\ lines[PendingBefore[M - N + 1]]
                          # last.before[PendingBefore[M - N + 1]]

\* done 2 3 on two pending lines: 2 is the first line of the file, 3 is rejected
C1_Witness ==
    /\ last.cmd = "done"
    /\ Len(PendingBefore) = 2
    /\ last.nums = <<2, 3>>
    /\ last.targets = <<1, 0>>
    /\ lines[1] # last.before[1]
    /\ lines[2] = last.before[2]

\* C2: the line the pending listing shows as number k is the line that done k
\* or cancel k, run on the same store, resolves and rewrites; with two pending
\* lines A then B, done 1 completes B and leaves A pending in the first place.
C2_ListingMatchesMutation ==
    /\ Mutating =>
          LET L == pending_listing(last.before)
          IN \A i \in 1..Len(last.nums) :
                LET k == last.nums[i]
                IN IF k \in 1..Len(L)
                   THEN /\ last.targets[i] = L[k].idx
                        /\ L[k].text = display_line(last.before[last.targets[i]])
                        /\ lines[L[k].idx] # last.before[L[k].idx]
                   ELSE last.targets[i] = 0
    /\ (last.cmd = "done" /\ last.before = <<LineA, LineB>> /\ last.nums = <<1>>) =>
          lines = <<LineA, done_token(FormatDate(last.now)) \o Drop(LineB, Len(PENDING))>>

\* the scenario: A and B pending, done 1
C2_Witness ==
    /\ last.cmd = "done"
    /\ last.before = <<LineA, LineB>>
    /\ last.nums = <<1>>
    /\ pending_listing(last.before)[1].idx = 2
    /\ last.targets = <<2>>
    /\ Contains(lines[1], PENDING)
    /\ MatchAt(lines[2], DONE, 1)

\* C3: a line that has been marked done or cancelled is never resolved as a
\* pending line by a later done or cancel, so it changes status at most once.
C3_StatusChangesOnce ==
    Mutating => \A t \in Targets : ~Marked(last.before[t])

\* C4: done and cancel keep the number and the order of the lines, and every
\* line that no in-range task number was resolved to is left as it was; when
\* every number is out of range the whole store is left as it was.
C4_Frame ==
    Mutating =>
        /\ Len(lines) = Len(last.before)
        /\ \A k \in 1..Len(last.before) :
              k \notin Targets => lines[k] = last.before[k]
        /\ (\A i \in 1..Len(last.nums) : ~InRange(last.nums[i])) =>
              lines = last.before

\* cancel 2 on two pending lines rewrites the first line and keeps the second
C4_Witness ==
    /\ last.cmd = "cancel"
    /\ Len(last.before) = 2
    /\ last.nums = <<2>>
    /\ Targets = {1}
    /\ lines[1] # last.before[1]
    /\ lines[2] = last.before[2]


\* the task text of the running add invocation
AddBody == add_text(last.date, last.text)

\* C5: add with a non-empty task text appends exactly one line to the store
\* and leaves the lines before it as they were; the new line is the pending
\* token, the due date (the date argument if one was given, else today), the
\* creation date (today) and the task text.
C5_AddAppendsOneLine ==
    (last.cmd = "add" /\ AddBody # <<>>) =>
        lines = Append(last.before,
                       PENDING \o <<" ", DUE, " ">> \o add_due(last.date, last.now)
                           \o <<" ", CRE, " ">> \o FormatDate(last.now)
                           \o <<" ">> \o AddBody)

\* C6: marking a pending line done on the day d replaces only the leading
\* pending token, by the done token, the completion glyph and d; the rest of
\* the line (due date, creation date, task text) is as it was, and the
\* completion date of the new line decodes to d.
C6_DoneKeepsRest ==
    last.cmd = "done" =>
        \A t \in Targets :
            MatchAt(last.before[t], PENDING, 1) =>
                /\ lines[t] = DONE \o <<" ", OKG, " ">> \o FormatDate(last.now)
                                \o Drop(last.before[t], Len(PENDING))
                /\ extract_date(lines[t], OKG) = {last.now}

\* C7: cancelling on the day d a pending line that add wrote with the due
\* date D, the creation date C and the task text B replaces it by the
\* cancelled token, d, the span DUE D CRE C, and B trimmed between strikes.
C7_CancelFormat ==
    last.cmd = "cancel" =>
        \A t \in Targets : \A a \in pool.args : \A c \in pool.days :
            last.before[t] = add_line(a.date, a.text, c) =>
                lines[t] = CANCELLED \o <<" ">> \o FormatDate(last.now)
                             \o <<" ", DUE, " ">> \o add_due(a.date, c)
                             \o <<" ", CRE, " ">> \o FormatDate(c) \o <<" ">>
                             \o STRIKE \o Trim(add_text(a.date, a.text)) \o STRIKE

\* C8: in a done batch every in-range number's line is completed (it carries
\* the done token with today's completion date, no longer the pending token,
\* and the done filter selects it), the result is written once, and a number
\* out of range costs one error message whatever its place in the batch.
C8_BatchContinues ==
    last.cmd = "done" =>
        /\ last.writes = 1
        /\ last.errs = Cardinality({i \in 1..Len(last.nums) : ~InRange(last.nums[i])})
        /\ \A i \in 1..Len(last.nums) :
              InRange(last.nums[i]) =>
                  LET t == PendingBefore[Len(PendingBefore) - last.nums[i] + 1]
                  IN /\ Contains(lines[t], DONE \o <<" ", OKG, " ">> \o FormatDate(last.now))
                     /\ ~Contains(lines[t], PENDING)
                     /\ \E k \in 1..Len(filtered(lines, DONE)) : filtered(lines, DONE)[k] = t

\* done 0 1: the error for 0 does not keep 1 from being completed
C8_Witness ==
    /\ last.cmd = "done"
    /\ last.nums = <<0, 1>>
    /\ Len(PendingBefore) >= 1
    /\ last.errs = 1
    /\ last.writes = 1
    /\ MatchAt(lines[PendingBefore[Len(PendingBefore)]], DONE, 1)

\* the running invocation failed the validation of its input
Invalid ==
    \/ last.cmd = "add" /\ AddBody = <<>>
    \/ last.cmd = "cancel" /\ ~InRange(last.nums[1])
    \/ last.cmd = "done" /\ \A i \in 1..Len(last.nums) : ~InRange(last.nums[i])

\* C9 as claimed: an invocation that fails validation never calls write_lines.
C9_NoWriteOnInvalid == Invalid => last.writes = 0

\* C9, amended: an invocation that fails validation leaves the lines of the
\* store as they were; add and cancel then do not call write_lines, done calls
\* it once, with the unchanged line list.
C9_InvalidKeepsStore ==
    Invalid =>
        /\ lines = last.before
        /\ last.cmd \in {"add", "cancel"} => last.writes = 0
        /\ last.cmd = "done" => last.writes = 1

\* done 0 3 on a store of two lines
C9_Witness ==
    /\ last.cmd = "done"
    /\ Len(last.before) = 2
    /\ last.nums = <<0, 3>>
    /\ last.targets = <<0, 0>>
    /\ last.writes = 1
    /\ lines = last.before

(***************************************************************************)
(* write_lines, step by step, on the files of the store's directory.       *)
(* A path is its file stem and its extension; a file is the set of its     *)
(* text, empty when the file does not exist.                               *)
(***************************************************************************)
\* Path::with_extension
with_extension(p, e) == [p EXCEPT !.ext = e]

\* let temp_path = path.with_extension("tmp")
temp_path(p) == with_extension(p, "tmp")

\* the store's path: the default work_log.md, or what TASK_FILE names
StorePaths ==
    { [stem |-> "work_log", ext |-> "md"],
      [stem |-> "work_log", ext |-> "tmp"] }

FilePaths == StorePaths \cup {temp_path(p) : p \in StorePaths}

\* the line lists of the store before write_lines and the list handed to it
WriteCases ==
    LET two == <<LineA, LineB>>
        day == FormatDate(StartDay)
    IN { [old |-> <<>>, new |-> <<LineA>>],
         [old |-> <<LineA>>, new |-> two],
         [old |-> <<LineB>>, new |-> <<LineB, LineA>>],
         [old |-> two, new |-> done_loop(two, done_pending(two), <<0>>, day)],
         [old |-> two, new |-> done_loop(two, done_pending(two), <<1>>, day)],
         [old |-> two, new |-> done_loop(two, done_pending(two), <<2>>, day)],
         [old |-> two, new |-> done_loop(two, done_pending(two), <<1, 2>>, day)],
         [old |-> two, new |-> cancel_one(two, cancel_pending(two), 1, day)],
         [old |-> two, new |-> cancel_one(two, cancel_pending(two), 2, day)] }

\* the text of a file, <<>> for a file that does not exist
TextOf(f) == IF f = {} THEN <<>> ELSE CHOOSE t \in f : TRUE

InitWrite ==
    /\ pool \in {p \in Pools : ArgNone \in p.args}
    /\ lines = <<>>
    /\ today = StartDay
    /\ last = Idle
    /\ wpath \in StorePaths
    /\ \E c \in WriteCases :
          /\ wold = c.old
          /\ wnew = c.new
          /\ wfs = [p \in FilePaths |-> IF p = wpath THEN {Bytes(FileText(c.old))} ELSE {}]
    /\ wpc = "create"
    /\ wk = 0
    /\ woff = 0

\* File::create(&temp_path): the file is created, or truncated if it exists
WCreate ==
    /\ wpc = "create"
    /\ wfs' = [wfs EXCEPT ![temp_path(wpath)] = {<<>>}]
    /\ wpc' = "write"
    /\ UNCHANGED <<wpath, wold, wnew, wk, woff>>

\* the numbers of bytes one write of the line can take: any part of what is left
WriteSizes ==
    IF wpc = "write" /\ wk < Len(wnew)
    THEN 1..(Len(Bytes(wnew[wk + 1])) - woff)
    ELSE {}

\* writeln!(file, "{}", line), one turn of the loop, on a File without a
\* buffer: write_all gives the file the bytes of the line, one write at a
\* time; a write takes n of the bytes that are left, at least one
WWritelnLine(n) ==
    LET buf == Bytes(wnew[wk + 1])
    IN /\ wpc = "write"
       /\ wk < Len(wnew)
       /\ n >= 1
       /\ woff + n <= Len(buf)
       /\ wfs' = [wfs EXCEPT ![temp_path(wpath)] =
                                {TextOf(@) \o SubSeq(buf, woff + 1, woff + n)}]
       /\ woff' = woff + n
       /\ UNCHANGED <<wpath, wold, wnew, wpc, wk>>

\* writeln!(file, "{}", line): once the line is written, the write of the
\* newline
WWritelnNewline ==
    /\ wpc = "write"
    /\ wk < Len(wnew)
    /\ woff = Len(Bytes(wnew[wk + 1]))
    /\ wfs' = [wfs EXCEPT ![temp_path(wpath)] = {TextOf(@) \o <<NL>>}]
    /\ wk' = wk + 1
    /\ woff' = 0
    /\ UNCHANGED <<wpath, wold, wnew, wpc>>

\* file.sync_all()
WSync ==
    /\ wpc = "write"
    /\ wk = Len(wnew)
    /\ wpc' = "rename"
    /\ UNCHANGED <<wpath, wfs, wold, wnew, wk, woff>>

\* fs::rename(temp_path, path): renaming a file onto itself changes nothing
WRename ==
    /\ wpc = "rename"
    /\ wfs' = IF temp_path(wpath) = wpath THEN wfs
              ELSE [wfs EXCEPT ![wpath] = wfs[temp_path(wpath)],
                               ![temp_path(wpath)] = {}]
    /\ wpc' = "done"
    /\ UNCHANGED <<wpath, wold, wnew, wk, woff>>

\* the process is killed, or a step fails and the process exits
WCrash ==
    /\ wpc \in {"create", "write", "rename"}
    /\ wpc' = "crashed"
    /\ UNCHANGED <<wpath, wfs, wold, wnew, wk, woff>>

NextWrite ==
    \/ WCreate /\ UNCHANGED storeVars
    \/ \E n \in WriteSizes : WWritelnLine(n) /\ UNCHANGED storeVars
    \/ WWritelnNewline /\ UNCHANGED storeVars
    \/ WSync /\ UNCHANGED storeVars
    \/ WRename /\ UNCHANGED storeVars
    \/ WCrash /\ UNCHANGED storeVars

SpecWrite == InitWrite /\ [][NextWrite]_vars

\* C10: at every step of write_lines, and after a crash at any step, the
\* store's file holds the whole old line list or the whole new one, for every
\* path of the store.
C10_StoreOldOrNew == wfs[wpath] \in {{Bytes(FileText(wold))}, {Bytes(FileText(wnew))}}

(***************************************************************************)
(* Properties of the status filters, the dates and the listings.           *)
(***************************************************************************)
\* the status filters of the listings that select a line
Selected(line) == {t \in {PENDING, DONE, CANCELLED} : Contains(line, t)}

\* C11: after any sequence of add, done and cancel from the empty store every
\* line is selected by exactly one of the three status filters, the one whose
\* token is at the start of the line, whatever the task text contains.
C11_OneStatus ==
    \A i \in 1..Len(lines) :
        /\ Cardinality(Selected(lines[i])) = 1
        /\ \A t \in Selected(lines[i]) : MatchAt(lines[i], t, 1)

\* C12: the line add writes carries a due date that decodes (glyph DUE, white
\* space, YYYY-MM-DD parsed as a calendar date) to the due date add was given,
\* or to today when none was given; the decoded date is never absent.
C12_DueRoundTrips ==
    (last.cmd = "add" /\ last.writes = 1) =>
        LET got == extract_date(lines[Len(last.before) + 1], DUE)
        IN /\ got # {}
           /\ \A d \in got : FormatDate(d) = add_due(last.date, last.now)

\* the invocations that print a filtered listing
FilteredListings == {"today", "week", "lastweek", "pending", "donelist", "cancellist"}

\* C13: in every filtered listing the k-th line printed carries the number k;
\* the lines are printed in file order, except by pending, which prints the
\* newest line first.
C13_NumberedOverFiltered ==
    last.cmd \in FilteredListings =>
        /\ \A k \in 1..Len(last.out) : last.out[k].num = k
        /\ \A j, k \in 1..Len(last.out) :
              j < k => IF last.cmd = "pending"
                       THEN last.out[j].idx > last.out[k].idx
                       ELSE last.out[j].idx < last.out[k].idx

\* the indices of the lines a listing printed
Listed == {last.out[k].idx : k \in 1..Len(last.out)}

\* the line is a pending line as add writes it: `- [ ] DUE <due> CRE ...`
AddedPending(line) == MatchAt(line, PENDING \o <<" ", DUE, " ">>, 1)

\* the ten characters of the due date of such a line
DueText(line) == SubSeq(line, Len(PENDING) + 4, Len(PENDING) + 13)

\* C14: week lists exactly the pending lines whose due date d is a valid
\* calendar date with today <= d <= today + 7: a line due today or due
\* today + 7 is listed, a line due today + 8 or today - 1 is not, and a line
\* whose due date is missing or is not a calendar date is left out.
C14_WeekWindow ==
    last.cmd = "week" =>
        /\ Listed = {i \in 1..Len(last.before) :
                        /\ Contains(last.before[i], PENDING)
                        /\ \E d \in extract_date(last.before[i], DUE) :
                              last.now <= d /\ d <= last.now + 7}
        /\ \A i \in 1..Len(last.before) :
              AddedPending(last.before[i]) =>
                  LET due == DueText(last.before[i])
                  IN /\ due \in {FormatDate(last.now), FormatDate(last.now + 7)}
                          => i \in Listed
                     /\ due \in {FormatDate(last.now + 8), FormatDate(last.now - 1)}
                          => i \notin Listed
                     /\ ParseDate(due) = {} => i \notin Listed

\* week run on the day on which a pending line is due in exactly seven days
C14_Witness ==
    /\ last.cmd = "week"
    /\ \E i \in 1..Len(last.before) :
          /\ AddedPending(last.before[i])
          /\ DueText(last.before[i]) = FormatDate(last.now + 7)
          /\ i \in Listed

\* the line that the pending listing numbers 1, 0 when it lists nothing
FirstPending(ls) ==
    LET p == pending_listing(ls)
    IN IF p = <<>> THEN 0 ELSE p[1].idx

\* the running done or cancel took a pending line out of the pending view
RemovedFromView ==
    \E i \in 1..Len(last.before) :
        /\ Contains(last.before[i], PENDING)
        /\ ~(i <= Len(lines) /\ Contains(lines[i], PENDING))

\* C15 as claimed: when done or cancel removed a pending line from the view,
\* the pending numbering of the new content never gives number 1 to the line
\* that had number 1 before.
C15_FirstMoves ==
    (Mutating /\ RemovedFromView /\ FirstPending(lines) # 0) =>
        FirstPending(lines) # FirstPending(last.before)

\* C15, amended: after done or cancel, number 1 is on the same line as before
\* exactly when that line is still in the pending view; it is whenever the
\* number 1 was not given, whatever other lines left the view, and it is not
\* after done resolved the number 1.
C15_FirstStays ==
    (Mutating /\ FirstPending(last.before) # 0) =>
        LET first == FirstPending(last.before)
            after == FirstPending(lines)
            given == \E i \in 1..Len(last.nums) : last.nums[i] = 1
        IN /\ after = first
                <=> (first <= Len(lines) /\ Contains(lines[first], PENDING))
           /\ ~given => after = first
           /\ (given /\ last.cmd = "done") => after # first

\* done 2 on two pending lines: the older line leaves the view, number 1 stays
C15_Witness ==
    /\ last.cmd = "done"
    /\ last.nums = <<2>>
    /\ last.before = <<LineA, LineB>>
    /\ RemovedFromView
    /\ FirstPending(last.before) = 2
    /\ FirstPending(lines) = 2

\* the lines a batch would resolve its numbers to if every number were
\* resolved against the pending lines left by the numbers before it
RECURSIVE FreshTargets(_, _, _)
FreshTargets(ls, nums, date) ==
    IF nums = <<>> THEN <<>>
    ELSE <<target(Head(nums), done_pending(ls))>>
         \o FreshTargets(done_one(ls, done_pending(ls), Head(nums), date),
                         Tail(nums), date)

\* the lines the running done or cancel resolved its numbers to
Resolved == {last.targets[i] : i \in 1..Len(last.targets)} \ {0}

\* C16 as claimed: in a done batch each number is resolved against the
\* pending lines that remain after the earlier numbers of the batch were
\* applied, and the lines so resolved are the ones rewritten.
C16_ResolvedOnCurrent ==
    last.cmd = "done" =>
        LET fresh == FreshTargets(last.before, last.nums, FormatDate(last.now))
        IN /\ last.targets = fresh
           /\ \A j \in 1..Len(last.before) :
                 lines[j] # last.before[j] <=> \E i \in 1..Len(fresh) : fresh[i] = j

\* C16, amended: done and cancel resolve every number against the pending
\* lines of the content read at the start of the invocation; in a done batch
\* all numbers are resolved against that one numbering, and exactly the lines
\* so resolved are rewritten.
C16_ResolvedOnSnapshot ==
    Mutating =>
        LET snapshot == Reverse(PendingBefore)
            resolved == Resolved
        IN /\ Len(lines) = Len(last.before)
           /\ \A i \in 1..Len(last.nums) :
                 last.targets[i] = target(last.nums[i], snapshot)
           /\ \A j \in 1..Len(last.before) :
                 lines[j] # last.before[j] <=> j \in resolved

\* done 1 2 on two pending lines: 2 is resolved to the older line although
\* only one line is pending once 1 has been applied; both lines are completed
C16_Witness ==
    /\ last.cmd = "done"
    /\ last.nums = <<1, 2>>
    /\ last.before = <<LineA, LineB>>
    /\ last.targets = <<2, 1>>
    /\ FreshTargets(last.before, last.nums, FormatDate(last.now)) = <<2, 0>>
    /\ filtered(lines, PENDING) = <<>>
    /\ filtered(lines, DONE) = <<1, 2>>

\* the numbers of a batch, each at its first place only
RECURSIVE Once(_)
Once(nums) ==
    IF nums = <<>> THEN <<>>
    ELSE <<Head(nums)>> \o Once(SelectSeq(Tail(nums), LAMBDA n : n # Head(nums)))

\* the running batch names an in-range number more than once
Repeats ==
    LET M == Len(PendingBefore)
    IN \E i, j \in 1..Len(last.nums) :
          i < j /\ last.nums[i] = last.nums[j] /\ last.nums[i] \in 1..M

\* the number of places of s at which t occurs
Count(s, t) == Cardinality({i \in 1..Len(s) : MatchAt(s, t, i)})

\* C17: a done batch that names an in-range number more than once leaves the
\* store as the batch that names every number once does: each pending token of
\* a resolved line has become one done token with one completion date, and
\* the lines the batch did not resolve are as they were.
C17_RepeatIsOnce ==
    (last.cmd = "done" /\ Repeats) =>
        /\ lines = read_lines(done_loop(last.before, done_pending(last.before),
                                        Once(last.nums), FormatDate(last.now)))
        /\ \A j \in 1..Len(last.before) :
              IF j \in Resolved
              THEN /\ Count(lines[j], DONE)
                         = Count(last.before[j], DONE) + Count(last.before[j], PENDING)
                   /\ Count(lines[j], <<OKG>>)
                         = Count(last.before[j], <<OKG>>) + Count(last.before[j], PENDING)
                   /\ Count(lines[j], PENDING) = 0
              ELSE lines[j] = last.before[j]

\* done 1 1 on two pending lines: the newer line carries one done token and
\* one completion date, the older line is as it was
C17_Witness ==
    /\ last.cmd = "done"
    /\ last.nums = <<1, 1>>
    /\ last.before = <<LineA, LineB>>
    /\ Repeats
    /\ lines[1] = LineA
    /\ lines[2] = DONE \o <<" ", OKG, " ">> \o FormatDate(last.now)
                       \o SubSeq(LineB, Len(PENDING) + 1, Len(LineB))
    /\ Count(lines[2], DONE) = 1
    /\ Count(lines[2], <<OKG>>) = 1

====
